---- MODULE Spec2Model ----
(***************************************************************************)
(* Model of GroundingWithBingSearch (src/grounding/bing/bing_search.py)    *)
(* and of BingSearchPlugin.bing_search (src/main.py).                      *)
(*                                                                         *)
(* Every coroutine is cut at its await points: an action is the code that  *)
(* runs from the resumption after one await up to the next request the     *)
(* coroutine issues.  The arguments of a request (self.agent_id,           *)
(* self.thread_id) are read when the request is issued, and the agent      *)
(* service handles the request in the same step.                           *)
(***************************************************************************)
EXTENDS Integers, Sequences, FiniteSets, TLC

\* ---------------------------------------------------------------- bounds
MaxCalls == 2      \* calls the caller makes on one client
MaxPolls == 3      \* status polls of one run
MaxItems == 3      \* threads (agents) present when a bulk cleanup starts
PageSize == 2      \* items the service puts on one listing page
MaxConcPolls == 1  \* status polls of one run when two tasks interleave

\* ------------------------------------------------------------- vocabulary
Procs == {"A", "B"}            \* tasks that may use the plugin's client
Caller == "A"                  \* the task of the sequential specifications
None == 0                      \* Python None (ids are non-empty strings)
Pending == 0                   \* a gather slot whose task has not finished
Err == -1                      \* a response body without the expected key
Statuses == {"queued", "in_progress", "completed", "failed", "incomplete"}
Details == {"X", "Y"}          \* incomplete_details payloads
NoDetails == "null"
NoStatus == "none"

VARIABLES
    agents,             \* service: ids of the agents that exist
    threads,            \* service: ids of the threads that exist
    runs,               \* service: runs, [id, thread, agent]
    messages,           \* service: <<thread, content>> of every message
    nextId,             \* service: next fresh id
    agent_id,           \* client: self.agent_id
    thread_id,          \* client: self.thread_id
    pc,                 \* per task: position in the call it is running
    call,               \* per task: the call it is running
    calls,              \* per task: the calls it finished, oldest first
    results,            \* per task: results of asyncio.gather in init_agent_threads
    runs_result,        \* per task: id of runs_result, or Err
    status_run_result,  \* per task: last polled [status, incomplete_details]
    response_result,    \* per task: response of _get_response
    listing,            \* per task: results of the listing GET of a bulk cleanup
    response_status,    \* per task: HTTP status of the last DELETE
    idx,                \* per task: index of the for loop of a bulk cleanup
    ret,                \* per task: how search() ended
    outcome,            \* per task: how the whole call ended
    log                 \* per task: the requests of the current call, in order

service == <<agents, threads, runs, messages, nextId>>
client == <<agent_id, thread_id>>
locals == <<results, runs_result, status_run_result, response_result,
            listing, response_status, idx>>
vars == <<agents, threads, runs, messages, nextId, agent_id, thread_id, pc,
          call, calls, results, runs_result, status_run_result,
          response_result, listing, response_status, idx, ret, outcome, log>>

\* ---------------------------------------------------------------- helpers
Min(a, b) == IF a < b THEN a ELSE b

RECURSIVE SortedSeq(_)
SortedSeq(S) ==
    IF S = {} THEN <<>>
    ELSE LET m == CHOOSE x \in S : \A y \in S : x <= y
         IN  <<m>> \o SortedSeq(S \ {m})

\* One request of the log.
Req(op, a, t) ==
    [op |-> op, agent |-> a, thread |-> t, status |-> NoStatus,
     details |-> NoDetails, data |-> {}, code |-> 0, has_more |-> FALSE]

Ops(p, op) == SelectSeq(log[p], LAMBDA e : e.op = op)
Positions(p, op) == {i \in 1..Len(log[p]) : log[p][i].op = op}

NoError == <<"none", "none">>
NoRet == [outcome |-> "none", data |-> {}, error |-> NoError]
NoResults == [agent |-> Pending, thread |-> Pending]
NoStatusRun == [status |-> NoStatus, incomplete_details |-> NoDetails]
NoResponse == [ok |-> FALSE, data |-> {}]
NoListing == [data |-> <<>>, has_more |-> FALSE]
MissingKey == "<missing>"     \* the key a response body does not have

Query(p) == p       \* the query text a task searches for

\* The calls that run search().
SearchKinds == {"search", "bing_search"}

\* The calls a task has started.
Started(p) == Len(calls[p]) + (IF pc[p] = "idle" THEN 0 ELSE 1)

\* The caller starts a new call: the finished one goes to the history.  The
\* ids the last search() created stay on record until the next search().
Begin(p, kind) ==
    /\ pc[p] \in {"idle", "done"}
    /\ Started(p) < MaxCalls
    /\ call' = [call EXCEPT ![p] = kind]
    /\ calls' = [calls EXCEPT ![p] =
                    IF pc[p] = "done"
                    THEN Append(@, [kind |-> call[p], outcome |-> outcome[p]])
                    ELSE @]
    /\ ret' = [ret EXCEPT ![p] = NoRet]
    /\ outcome' = [outcome EXCEPT ![p] = "none"]
    /\ results' = [results EXCEPT ![p] =
                      IF kind \in SearchKinds THEN NoResults ELSE @]
    /\ runs_result' = [runs_result EXCEPT ![p] = None]
    /\ status_run_result' = [status_run_result EXCEPT ![p] = NoStatusRun]
    /\ response_result' = [response_result EXCEPT ![p] = NoResponse]
    /\ listing' = [listing EXCEPT ![p] = NoListing]
    /\ response_status' = [response_status EXCEPT ![p] = 0]
    /\ idx' = [idx EXCEPT ![p] = 0]

\* The KeyError of a response body that lacks the key read from it.
KeyError(key) == <<"KeyError", key>>

\* An exception leaves search(): it propagates through bing_search too.
Raise(p, error) ==
    /\ pc' = [pc EXCEPT ![p] = "done"]
    /\ ret' = [ret EXCEPT ![p] = [outcome |-> "raised", data |-> {},
                                  error |-> error]]
    /\ outcome' = [outcome EXCEPT ![p] = "raised"]

Init ==
    /\ agents = {} /\ threads = {} /\ runs = {} /\ messages = {}
    /\ nextId = 1
    /\ agent_id = None /\ thread_id = None
    /\ pc = [p \in Procs |-> "idle"]
    /\ call = [p \in Procs |-> "none"]
    /\ calls = [p \in Procs |-> <<>>]
    /\ results = [p \in Procs |-> NoResults]
    /\ runs_result = [p \in Procs |-> None]
    /\ status_run_result = [p \in Procs |-> NoStatusRun]
    /\ response_result = [p \in Procs |-> NoResponse]
    /\ listing = [p \in Procs |-> NoListing]
    /\ response_status = [p \in Procs |-> 0]
    /\ idx = [p \in Procs |-> 0]
    /\ ret = [p \in Procs |-> NoRet]
    /\ outcome = [p \in Procs |-> "none"]
    /\ log = [p \in Procs |-> <<>>]

\* ----------------------------------------------------------------- search
\* search() is entered and init_agent_threads starts the two gather tasks.
search(p, kind) ==
    /\ kind \in {"search", "bing_search"}
    /\ Begin(p, kind)
    /\ pc' = [pc EXCEPT ![p] = "gather"]
    /\ log' = [log EXCEPT ![p] = <<>>]
    /\ UNCHANGED <<service, client>>

\* POST /assistants: the service creates an agent, or answers without an id.
create_agent(p) ==
    /\ pc[p] = "gather"
    /\ results[p].agent = Pending
    /\ \E ok \in BOOLEAN :
         IF ok
         THEN /\ agents' = agents \cup {nextId}
              /\ nextId' = nextId + 1
              /\ results' = [results EXCEPT ![p].agent = nextId]
              /\ log' = [log EXCEPT ![p] = Append(@, Req("create_agent", nextId, None))]
         ELSE /\ results' = [results EXCEPT ![p].agent = Err]
              /\ log' = [log EXCEPT ![p] = Append(@, Req("create_agent", Err, None))]
              /\ UNCHANGED <<agents, nextId>>
    /\ UNCHANGED <<threads, runs, messages, client, pc, call, calls,
                   runs_result, status_run_result, response_result, listing,
                   response_status, idx, ret, outcome>>

\* POST /threads: the service creates a thread, or answers without an id.
create_thread(p) ==
    /\ pc[p] = "gather"
    /\ results[p].thread = Pending
    /\ \E ok \in BOOLEAN :
         IF ok
         THEN /\ threads' = threads \cup {nextId}
              /\ nextId' = nextId + 1
              /\ results' = [results EXCEPT ![p].thread = nextId]
              /\ log' = [log EXCEPT ![p] = Append(@, Req("create_thread", None, nextId))]
         ELSE /\ results' = [results EXCEPT ![p].thread = Err]
              /\ log' = [log EXCEPT ![p] = Append(@, Req("create_thread", None, Err))]
              /\ UNCHANGED <<threads, nextId>>
    /\ UNCHANGED <<agents, runs, messages, client, pc, call, calls,
                   runs_result, status_run_result, response_result, listing,
                   response_status, idx, ret, outcome>>

\* self.agent_id = results[0]["id"]: a body without id raises before the
\* assignment.
AgentIdKept(r, old) == IF old # None THEN old ELSE r.agent

AgentIdAfterInit(r, old) == IF r.agent = Err THEN old ELSE r.agent

ThreadIdStoredFirst(r, old) == IF r.thread = Err THEN old ELSE r.thread

\* self.thread_id = results[1]["id"]: reached only when the line before it
\* did not raise.
ThreadIdAfterInit(r, old) ==
    IF r.agent = Err \/ r.thread = Err THEN old ELSE r.thread

\* gather has both results: the ids are stored in the client, and search()
\* posts the query to self.thread_id.
ask_to_thread(p) ==
    /\ pc[p] = "gather"
    /\ results[p].agent # Pending
    /\ results[p].thread # Pending
    /\ agent_id' = AgentIdAfterInit(results[p], agent_id)
    /\ thread_id' = ThreadIdAfterInit(results[p], thread_id)
    /\ IF results[p].agent = Err \/ results[p].thread = Err
       THEN /\ Raise(p, KeyError("id"))
            /\ UNCHANGED <<messages, log>>
       ELSE /\ messages' = IF thread_id' \in threads
                           THEN messages \cup {<<thread_id', Query(p)>>}
                           ELSE messages
            /\ log' = [log EXCEPT ![p] = Append(@, Req("ask_to_thread", None, thread_id'))]
            /\ pc' = [pc EXCEPT ![p] = "asked"]
            /\ UNCHANGED <<ret, outcome>>
    /\ UNCHANGED <<agents, threads, runs, nextId, call, calls, locals>>

\* The statuses the body of a run-submission response may carry.
SubmitStatuses == {"queued", "completed", "failed"}

\* The answers to one run submission: a run object with one of the statuses
\* in S, or an error body when the session or the worker does not exist.
RunStatuses(t, a, S) ==
    IF t \in threads /\ a \in agents THEN S ELSE {MissingKey}

\* POST /threads/{self.thread_id}/runs with assistant_id = self.agent_id; of
\* the response only runs_result["id"] is ever read.
runs_post(p, S) ==
    /\ pc[p] = "asked"
    /\ \E s \in RunStatuses(thread_id, agent_id, S) :
         log' = [log EXCEPT ![p] =
                   Append(@, [Req("runs", agent_id, thread_id) EXCEPT !.status = s])]
    /\ IF thread_id \in threads /\ agent_id \in agents
       THEN /\ runs' = runs \cup {[id |-> nextId, thread |-> thread_id, agent |-> agent_id]}
            /\ nextId' = nextId + 1
            /\ runs_result' = [runs_result EXCEPT ![p] = nextId]
       ELSE /\ runs_result' = [runs_result EXCEPT ![p] = Err]
            /\ UNCHANGED <<runs, nextId>>
    /\ pc' = [pc EXCEPT ![p] = "ran"]
    /\ UNCHANGED <<agents, threads, messages, client, call, calls, results,
                   status_run_result, response_result, listing,
                   response_status, idx, ret, outcome>>

\* The bodies the service may answer a status poll with.
StatusResponses(t, r) ==
    IF t \in threads /\ \E x \in runs : x.id = r /\ x.thread = t
    THEN {[status |-> s, incomplete_details |-> NoDetails] :
              s \in Statuses \ {"incomplete"}}
         \cup {[status |-> "incomplete", incomplete_details |-> d] : d \in Details}
    ELSE {[status |-> MissingKey, incomplete_details |-> NoDetails]}

\* GET /threads/{self.thread_id}/runs/{runs_result["id"]}: the first poll, or
\* the poll after asyncio.sleep(1).
status_run(p) ==
    /\ pc[p] \in {"ran", "sleep"}
    /\ Len(Ops(p, "status_run")) < MaxPolls
    /\ IF runs_result[p] = Err
       THEN /\ Raise(p, KeyError("id"))
            /\ UNCHANGED <<status_run_result, log>>
       ELSE \E resp \in StatusResponses(thread_id, runs_result[p]) :
              /\ status_run_result' = [status_run_result EXCEPT ![p] = resp]
              /\ log' = [log EXCEPT ![p] =
                    Append(@, [Req("status_run", None, thread_id) EXCEPT
                                  !.status = resp.status,
                                  !.details = resp.incomplete_details])]
              /\ pc' = [pc EXCEPT ![p] = "polled"]
              /\ UNCHANGED <<ret, outcome>>
    /\ UNCHANGED <<service, client, call, calls, results, runs_result,
                   response_result, listing, response_status, idx>>

LoopExitsAlways(status) == TRUE

LoopExitsOnCompleted(status) == status = "completed"

LoopExitsOnFailed(status) == status = "failed"

LoopExitsNever(status) == FALSE

\* The condition that ends the while loop of search().
LoopExits(status) == status \in {"completed", "failed"}

\* f"Run is incomplete. details:{status_run_result['incomplete_details']}"
IncompleteMessage(details) == <<"Run is incomplete. details:", details>>

RaisesNever(status) == FALSE

\* The status search() raises on inside the loop.
RaisesIncomplete(status) == status = "incomplete"

\* The body the service answers GET /threads/{t}/messages with.
MessagesResponse(t) ==
    IF t \in threads
    THEN [ok |-> TRUE, data |-> {m \in messages : m[1] = t}]
    ELSE NoResponse

\* The while test with the last polled status: leave the loop and fetch the
\* messages, raise on incomplete, or sleep before the next poll.
search_loop(p) ==
    /\ pc[p] = "polled"
    /\ LET st == status_run_result[p].status IN
       IF st = MissingKey
       THEN /\ Raise(p, KeyError("status"))
            /\ UNCHANGED <<response_result, log>>
       ELSE IF LoopExits(st)
       THEN /\ response_result' = [response_result EXCEPT ![p] = MessagesResponse(thread_id)]
            /\ log' = [log EXCEPT ![p] =
                  Append(@, [Req("get_response", None, thread_id) EXCEPT
                                !.data = MessagesResponse(thread_id).data])]
            /\ pc' = [pc EXCEPT ![p] = "fetched"]
            /\ UNCHANGED <<ret, outcome>>
       ELSE IF RaisesIncomplete(st)
       THEN /\ Raise(p, IncompleteMessage(status_run_result[p].incomplete_details))
            /\ UNCHANGED <<response_result, log>>
       ELSE /\ log' = [log EXCEPT ![p] = Append(@, Req("sleep", None, None))]
            /\ pc' = [pc EXCEPT ![p] = "sleep"]
            /\ UNCHANGED <<response_result, ret, outcome>>
    /\ UNCHANGED <<service, client, call, calls, results, runs_result,
                   status_run_result, listing, response_status, idx>>

ReturnsNothing(resp) == {}

\* What search() returns from the response of _get_response.
ReturnValue(resp) == resp.data

\* return response_result["data"]; in bing_search the result is then yielded.
search_return(p) ==
    /\ pc[p] = "fetched"
    /\ IF ~response_result[p].ok
       THEN Raise(p, KeyError("data"))
       ELSE /\ ret' = [ret EXCEPT ![p] = [outcome |-> "returned",
                          data |-> ReturnValue(response_result[p]),
                          error |-> NoError]]
            /\ IF call[p] = "bing_search"
               THEN /\ pc' = [pc EXCEPT ![p] = "yield"]
                    /\ UNCHANGED outcome
               ELSE /\ pc' = [pc EXCEPT ![p] = "done"]
                    /\ outcome' = [outcome EXCEPT ![p] = "returned"]
    /\ UNCHANGED <<service, client, call, calls, locals, log>>

\* ------------------------------------------------------------------ delete
\* The HTTP statuses the service may answer a DELETE of id with: a resource
\* that does not exist (any more) is rejected, one that exists is deleted
\* (200) or the deletion fails.
DeleteStatuses(coll, id) == IF id \in coll THEN {200, 500} ELSE {404}

\* _delete_agent / _delete_thread: the DELETE request and the service's answer.
IssueDelete(p, op, id) ==
    \E code \in DeleteStatuses(IF op = "delete_agent" THEN agents ELSE threads, id) :
        /\ agents' = IF op = "delete_agent" /\ code = 200 THEN agents \ {id} ELSE agents
        /\ threads' = IF op = "delete_thread" /\ code = 200 THEN threads \ {id} ELSE threads
        /\ response_status' = [response_status EXCEPT ![p] = code]
        /\ log' = [log EXCEPT ![p] =
              Append(@, [Req(op, IF op = "delete_agent" THEN id ELSE None,
                                 IF op = "delete_thread" THEN id ELSE None)
                         EXCEPT !.code = code])]

DeleteRaisesAlways(status) == TRUE

\* _delete: any status other than 200 raises.
DeleteRaises(status) == status # 200

\* The call returns normally.
Finish(p) ==
    /\ pc' = [pc EXCEPT ![p] = "done"]
    /\ outcome' = [outcome EXCEPT ![p] = "returned"]

\* An exception leaves delete_agent_threads or a bulk cleanup.
Abort(p) ==
    /\ pc' = [pc EXCEPT ![p] = "done"]
    /\ outcome' = [outcome EXCEPT ![p] = "raised"]

\* if self.thread_id: await self._delete_thread(self.thread_id)
ReleaseThread(p) ==
    IF thread_id # None
    THEN /\ IssueDelete(p, "delete_thread", thread_id)
         /\ pc' = [pc EXCEPT ![p] = "del_thread"]
         /\ UNCHANGED outcome
    ELSE /\ Finish(p)
         /\ UNCHANGED <<agents, threads, response_status, log>>

ReleaseAgentUnguarded(p) ==
    /\ IssueDelete(p, "delete_agent", agent_id)
    /\ pc' = [pc EXCEPT ![p] = "del_agent"]
    /\ UNCHANGED outcome

\* if self.agent_id: await self._delete_agent(self.agent_id)
ReleaseAgent(p) ==
    IF agent_id # None
    THEN /\ IssueDelete(p, "delete_agent", agent_id)
         /\ pc' = [pc EXCEPT ![p] = "del_agent"]
         /\ UNCHANGED outcome
    ELSE ReleaseThread(p)

\* delete_agent_threads() is called on the client by the caller.
delete_agent_threads(p) ==
    /\ Begin(p, "delete_agent_threads")
    /\ pc' = [pc EXCEPT ![p] = "release"]
    /\ log' = [log EXCEPT ![p] = <<>>]
    /\ UNCHANGED <<service, client>>

\* delete_agent_threads() starts to run: entered by the caller, or by
\* bing_search when the generator is resumed after `yield result`.
release_agent(p) ==
    /\ pc[p] \in {"release", "yield"}
    /\ ReleaseAgent(p)
    /\ UNCHANGED <<runs, messages, nextId, client, call, calls, results,
                   runs_result, status_run_result, response_result, listing,
                   idx, ret>>

\* The agent's DELETE is answered: _delete raises, or the thread is next.
release_thread(p) ==
    /\ pc[p] = "del_agent"
    /\ IF DeleteRaises(response_status[p])
       THEN /\ Abort(p)
            /\ UNCHANGED <<agents, threads, response_status, log>>
       ELSE ReleaseThread(p)
    /\ UNCHANGED <<runs, messages, nextId, client, call, calls, results,
                   runs_result, status_run_result, response_result, listing,
                   idx, ret>>

\* The thread's DELETE is answered: _delete raises, or the call returns.
release_return(p) ==
    /\ pc[p] = "del_thread"
    /\ IF DeleteRaises(response_status[p]) THEN Abort(p) ELSE Finish(p)
    /\ UNCHANGED <<service, client, call, calls, locals, ret, log>>

\* ------------------------------------------------------------ bulk cleanup
Collection(kind) == IF kind = "delete_all_agents" THEN agents ELSE threads
DeleteOp(kind) == IF kind = "delete_all_agents" THEN "delete_agent" ELSE "delete_thread"

\* The pages the service may answer the listing GET with: PageSize items of
\* the collection (all of them when there are no more), and whether more
\* items exist than the page holds.
Pages(coll) ==
    {[data |-> SortedSeq(S), has_more |-> Cardinality(coll) > PageSize] :
        S \in {T \in SUBSET coll : Cardinality(T) = Min(PageSize, Cardinality(coll))}}

\* _delete_all_threads() / _delete_all_agents() is called by the caller.
delete_all(p, kind) ==
    /\ kind \in {"delete_all_threads", "delete_all_agents"}
    /\ Begin(p, kind)
    /\ pc' = [pc EXCEPT ![p] = "purge"]
    /\ log' = [log EXCEPT ![p] = <<>>]
    /\ UNCHANGED <<service, client>>

\* The first listing GET, before the while loop.
delete_all_list(p) ==
    /\ pc[p] = "purge"
    /\ \E page \in Pages(Collection(call[p])) :
         /\ listing' = [listing EXCEPT ![p] = page]
         /\ log' = [log EXCEPT ![p] =
               Append(@, [Req("list", None, None) EXCEPT !.has_more = page.has_more])]
    /\ pc' = [pc EXCEPT ![p] = "listed"]
    /\ UNCHANGED <<service, client, call, calls, results, runs_result,
                   status_run_result, response_result, response_status, idx,
                   ret, outcome>>

\* The test of the while loop.
LoopContinues(page) == page.has_more

\* while results["has_more"]: the loop ends, or the for loop deletes the
\* first item of the page.
delete_all_loop(p) ==
    /\ pc[p] = "listed"
    /\ IF ~LoopContinues(listing[p])
       THEN /\ Finish(p)
            /\ UNCHANGED <<agents, threads, response_status, log, idx, listing>>
       ELSE IF Len(listing[p].data) = 0
       THEN /\ \E page \in Pages(Collection(call[p])) :
                 /\ listing' = [listing EXCEPT ![p] = page]
                 /\ log' = [log EXCEPT ![p] =
                       Append(@, [Req("list", None, None) EXCEPT !.has_more = page.has_more])]
            /\ UNCHANGED <<agents, threads, response_status, idx, pc, outcome>>
       ELSE /\ IssueDelete(p, DeleteOp(call[p]), listing[p].data[1])
            /\ idx' = [idx EXCEPT ![p] = 1]
            /\ pc' = [pc EXCEPT ![p] = "purge_del"]
            /\ UNCHANGED <<outcome, listing>>
    /\ UNCHANGED <<runs, messages, nextId, client, call, calls, results,
                   runs_result, status_run_result, response_result, ret>>

\* A DELETE of the for loop is answered: _delete raises, the next item of the
\* page is deleted, or the page is done and the listing is fetched again.
delete_all_item(p) ==
    /\ pc[p] = "purge_del"
    /\ IF DeleteRaises(response_status[p])
       THEN /\ Abort(p)
            /\ UNCHANGED <<agents, threads, response_status, log, idx, listing>>
       ELSE IF idx[p] < Len(listing[p].data)
       THEN /\ IssueDelete(p, DeleteOp(call[p]), listing[p].data[idx[p] + 1])
            /\ idx' = [idx EXCEPT ![p] = @ + 1]
            /\ UNCHANGED <<pc, outcome, listing>>
       ELSE /\ \E page \in Pages(Collection(call[p])) :
                 /\ listing' = [listing EXCEPT ![p] = page]
                 /\ log' = [log EXCEPT ![p] =
                       Append(@, [Req("list", None, None) EXCEPT !.has_more = page.has_more])]
            /\ pc' = [pc EXCEPT ![p] = "listed"]
            /\ UNCHANGED <<agents, threads, response_status, idx, outcome>>
    /\ UNCHANGED <<runs, messages, nextId, client, call, calls, results,
                   runs_result, status_run_result, response_result, ret>>

\* --------------------------------------------------------- specifications
\* One caller uses one client: search(), the plugin's bing_search() and
\* delete_agent_threads(), one call after the other.
Next ==
    \E p \in {Caller} :
        \/ \E kind \in {"search", "bing_search"} : search(p, kind)
        \/ create_agent(p)
        \/ create_thread(p)
        \/ ask_to_thread(p)
        \/ runs_post(p, SubmitStatuses)
        \/ status_run(p)
        \/ search_loop(p)
        \/ search_return(p)
        \/ delete_agent_threads(p)
        \/ release_agent(p)
        \/ release_thread(p)
        \/ release_return(p)

Spec == Init /\ [][Next]_vars

\* Two tasks call the plugin's bing_search() once each, on the plugin's one
\* client, interleaved at their await points.
NextConc ==
    \E p \in Procs :
        \/ Started(p) = 0 /\ search(p, "bing_search")
        \/ create_agent(p)
        \/ create_thread(p)
        \/ ask_to_thread(p)
        \/ runs_post(p, {"queued"})
        \/ Len(Ops(p, "status_run")) < MaxConcPolls /\ status_run(p)
        \/ search_loop(p)
        \/ search_return(p)
        \/ release_agent(p)
        \/ release_thread(p)
        \/ release_return(p)

SpecConc == Init /\ [][NextConc]_vars

\* A bulk cleanup of a service that holds up to MaxItems threads and agents.
InitPurge ==
    /\ \E n \in 0..MaxItems : threads = 1..n
    /\ \E n \in 0..MaxItems : agents = (MaxItems + 1)..(MaxItems + n)
    /\ runs = {} /\ messages = {}
    /\ nextId = 2 * MaxItems + 1
    /\ agent_id = None /\ thread_id = None
    /\ pc = [p \in Procs |-> "idle"]
    /\ call = [p \in Procs |-> "none"]
    /\ calls = [p \in Procs |-> <<>>]
    /\ results = [p \in Procs |-> NoResults]
    /\ runs_result = [p \in Procs |-> None]
    /\ status_run_result = [p \in Procs |-> NoStatusRun]
    /\ response_result = [p \in Procs |-> NoResponse]
    /\ listing = [p \in Procs |-> NoListing]
    /\ response_status = [p \in Procs |-> 0]
    /\ idx = [p \in Procs |-> 0]
    /\ ret = [p \in Procs |-> NoRet]
    /\ outcome = [p \in Procs |-> "none"]
    /\ log = [p \in Procs |-> <<>>]

NextPurge ==
    \E p \in {Caller} :
        \/ \E kind \in {"delete_all_threads", "delete_all_agents"} : delete_all(p, kind)
        \/ delete_all_list(p)
        \/ delete_all_loop(p)
        \/ delete_all_item(p)

SpecPurge == InitPurge /\ [][NextPurge]_vars

\* A step of a bulk cleanup that is under way.
PurgeStep ==
    \E p \in {Caller} :
        delete_all_list(p) \/ delete_all_loop(p) \/ delete_all_item(p)

\* The bulk cleanup on an event loop that resumes the coroutine whenever the
\* response it awaits has arrived, with a service that answers every request.
SpecPurgeFair == SpecPurge /\ WF_vars(PurgeStep)

\* The resumptions of search() after each of its awaits.
SearchStep ==
    \E p \in {Caller} :
        \/ create_agent(p)
        \/ create_thread(p)
        \/ ask_to_thread(p)
        \/ runs_post(p, SubmitStatuses)
        \/ status_run(p)
        \/ search_loop(p)
        \/ search_return(p)

\* One call of search() on a fresh client, as test_bing_search makes it,
\* directly or through the plugin's bing_search up to its yield.
NextSearch ==
    \/ \E p \in {Caller} : \E kind \in SearchKinds :
          Started(p) = 0 /\ search(p, kind)
    \/ SearchStep

\* search() on an event loop that resumes the coroutine whenever the response
\* or the sleep it awaits has completed, with a service that answers every
\* request.
SpecSearchFair == Init /\ [][NextSearch]_vars /\ WF_vars(SearchStep)

\* ------------------------------------------------------------------ claims
Polls(p) == Positions(p, "status_run")
Fetches(p) == Positions(p, "get_response")
Terminal == {"completed", "failed", "incomplete"}
SearchEnded(p) == ret[p].outcome # "none"
PolledStatus(p, s) == \E i \in Polls(p) : log[p][i].status = s
LastPolledStatus(p, s) ==
    \E i \in Polls(p) : log[p][i].status = s /\ \A j \in Polls(p) : j <= i
ReleaseKinds == {"delete_agent_threads", "bing_search"}
PurgeKinds == {"delete_all_threads", "delete_all_agents"}

\* C1: whenever search() has ended after a poll answered `failed`, it ended by
\* raising and sent no GET of the thread's messages.
C1_FailedRaisesWithoutFetch ==
    \A p \in Procs :
        (SearchEnded(p) /\ PolledStatus(p, "failed"))
            => (ret[p].outcome = "raised" /\ Fetches(p) = {})

\* C2: once the last poll answered `completed`, search() sends at most one GET
\* of the messages, after every poll; when it has ended it has returned, it
\* sent exactly one such GET, and the value returned is the data of that
\* response, which holds the query posted to the thread of this call.
C2_CompletedReturnsFetched ==
    \A p \in Procs :
        LastPolledStatus(p, "completed") =>
            /\ Cardinality(Fetches(p)) <= 1
            /\ \A f \in Fetches(p) : \A q \in Polls(p) : q < f
            /\ SearchEnded(p) =>
                 /\ ret[p].outcome = "returned"
                 /\ \E f \in Fetches(p) :
                      /\ ret[p].data = log[p][f].data
                      /\ log[p][f].thread = results[p].thread
                 /\ <<results[p].thread, Query(p)>> \in ret[p].data

\* C2 witness: search() returned after a poll sequence of two or more statuses
\* that ends in `completed`.
C2_Witness ==
    \E p \in Procs :
        /\ ret[p].outcome = "returned"
        /\ LastPolledStatus(p, "completed")
        /\ Cardinality(Polls(p)) >= 2
        /\ Cardinality(Fetches(p)) = 1

\* C3: a poll that answers `incomplete` is the last poll of the call, no GET
\* of the messages is ever sent, and search() raises on the next step with
\* the message that holds exactly the incomplete_details of that poll response.
C3_IncompleteRaisesDetails ==
    \A p \in Procs :
        \A i \in Polls(p) :
            log[p][i].status = "incomplete" =>
                /\ \A j \in Polls(p) : j <= i
                /\ Fetches(p) = {}
                /\ i = Len(log[p])
                /\ pc[p] \in {"polled", "done"}
                /\ pc[p] = "done" =>
                     /\ ret[p].outcome = "raised"
                     /\ ret[p].error = IncompleteMessage(log[p][i].details)

\* C3 witness: scenario B, [queued, incomplete] with details X, has raised.
C3_Witness ==
    \E p \in Procs :
        /\ ret[p].outcome = "raised"
        /\ ret[p].error = IncompleteMessage("X")
        /\ Cardinality(Polls(p)) = 2
        /\ PolledStatus(p, "queued")
        /\ LastPolledStatus(p, "incomplete")

\* C4: when a bing_search() interaction that created its agent and thread and
\* polled its run has ended, with no DELETE rejected by the service, the
\* agent and the thread it created have been deleted.
C4_InteractionDeletesResources ==
    \A p \in Procs :
        (/\ call[p] = "bing_search"
         /\ pc[p] = "done"
         /\ Polls(p) # {}
         /\ \A i \in 1..Len(log[p]) : log[p][i].code \in {0, 200})
            => (results[p].agent \notin agents /\ results[p].thread \notin threads)

\* C5: when delete_agent_threads() has ended on a client that holds an agent
\* id and a thread id, and the agent's DELETE was answered with a status
\* other than 200, the thread's DELETE has been sent all the same.
C5_ThreadDeleteStillAttempted ==
    \A p \in Procs :
        (/\ call[p] \in ReleaseKinds
         /\ pc[p] = "done"
         /\ thread_id # None
         /\ \E i \in Positions(p, "delete_agent") : log[p][i].code # 200)
            => Positions(p, "delete_thread") # {}

\* C6: when a bulk cleanup has returned normally, the collection it cleans is
\* empty.
C6_PurgeDeletesEveryItem ==
    \A p \in Procs :
        (call[p] \in PurgeKinds /\ pc[p] = "done" /\ outcome[p] = "returned")
            => Collection(call[p]) = {}

\* C7: a delete_agent_threads() that follows a release which returned
\* normally, on a client that holds ids, does not raise.
C7_SecondReleaseDoesNotRaise ==
    \A p \in Procs :
        (/\ call[p] = "delete_agent_threads"
         /\ pc[p] = "done"
         /\ agent_id # None /\ thread_id # None
         /\ Len(calls[p]) >= 1
         /\ calls[p][Len(calls[p])].kind \in ReleaseKinds
         /\ calls[p][Len(calls[p])].outcome = "returned")
            => outcome[p] = "returned"

\* C8: a bulk cleanup never ends while an item of the page it fetched last,
\* a page with has_more, has had no DELETE request.
C8_SiblingDeletesStillAttempted ==
    \A p \in Procs :
        (call[p] \in PurgeKinds /\ pc[p] = "done" /\ listing[p].has_more)
            => \A k \in 1..Len(listing[p].data) :
                  \E i \in Positions(p, DeleteOp(call[p])) :
                      listing[p].data[k] \in {log[p][i].agent, log[p][i].thread}

\* C9: in the requests of one search() call, both creations precede the
\* message submission and both have produced an id, the message submission
\* precedes the run submission, the run submission precedes every poll, and
\* the GET of the messages comes after a poll that answered a terminal
\* status.
C9_RequestOrder ==
    \A p \in Procs :
        /\ \A a \in Positions(p, "ask_to_thread") :
              /\ \E c \in Positions(p, "create_agent") : c < a /\ log[p][c].agent # Err
              /\ \E c \in Positions(p, "create_thread") : c < a /\ log[p][c].thread # Err
        /\ \A r \in Positions(p, "runs") :
              \E a \in Positions(p, "ask_to_thread") : a < r
        /\ \A q \in Polls(p) : \E r \in Positions(p, "runs") : r < q
        /\ \A f \in Fetches(p) :
              \E q \in Polls(p) : q < f /\ log[p][q].status \in Terminal

\* C9 witness: a search() that polled twice or more has sent its GET of the
\* messages.
C9_Witness ==
    \E p \in Procs :
        /\ Fetches(p) # {}
        /\ Cardinality(Polls(p)) >= 2
        /\ Positions(p, "ask_to_thread") # {}
        /\ Positions(p, "runs") # {}

\* C10: when no creation request fails, every message submission, run
\* submission, status poll and GET of the messages of a task uses the thread
\* (and agent) that task's own call created.
C10_OwnIdentifiersOnly ==
    (\A q \in Procs : results[q].agent # Err /\ results[q].thread # Err) =>
    \A p \in Procs :
        \A i \in 1..Len(log[p]) :
            log[p][i].op \in {"ask_to_thread", "runs", "status_run", "get_response"} =>
                /\ log[p][i].thread = results[p].thread
                /\ log[p][i].op = "runs" => log[p][i].agent = results[p].agent


PurgeActive == {"purge", "listed", "purge_del"}
DeleteRejected(p) == \E i \in 1..Len(log[p]) : log[p][i].code \notin {0, 200}

\* C11: with a service whose has_more pages are never empty and that reports
\* has_more = false once no more than a page is left, a bulk cleanup that has
\* started always ends, and it ends by returning when no DELETE was rejected.
C11_PurgeTerminates ==
    \A p \in Procs :
        (pc[p] \in PurgeActive) ~>
            (pc[p] = "done" /\ (~DeleteRejected(p) => outcome[p] = "returned"))

\* C11 witness: a bulk cleanup has returned after deleting a page and fetching
\* the listing again, every DELETE answered 200.
C11_Witness ==
    \E p \in Procs :
        /\ call[p] \in PurgeKinds
        /\ pc[p] = "done"
        /\ outcome[p] = "returned"
        /\ ~DeleteRejected(p)
        /\ Cardinality(Positions(p, "list")) >= 2

\* C12: whenever a bulk cleanup has ended, the listing it fetched last
\* reported has_more = false.
C12_EndsOnlyWithoutMore ==
    \A p \in Procs :
        (call[p] \in PurgeKinds /\ pc[p] = "done") => ~listing[p].has_more


\* The acquisition of task p failed on the agent while its thread was created.
AgentFailedThreadCreated(p) ==
    /\ results[p].agent = Err
    /\ results[p].thread \notin {Pending, Err}

\* C13 (states): after a search() whose agent creation failed and whose thread
\* creation succeeded, the call has raised without a message or run
\* submission and without a DELETE, the created thread still exists and is
\* not the client's thread_id; a delete_agent_threads() that follows sends no
\* DELETE for that thread and leaves it in place.
C13_OrphanedThread ==
    \A p \in Procs :
        (AgentFailedThreadCreated(p) /\ pc[p] # "gather") =>
            /\ results[p].thread \in threads
            /\ thread_id # results[p].thread
            /\ \A i \in 1..Len(log[p]) :
                  /\ log[p][i].op \notin {"ask_to_thread", "runs"}
                  /\ log[p][i].op = "delete_thread" =>
                        log[p][i].thread # results[p].thread
            /\ (call[p] \in SearchKinds) =>
                  /\ pc[p] = "done"
                  /\ outcome[p] = "raised"
                  /\ ret[p].error = KeyError("id")
                  /\ Positions(p, "delete_agent") \cup Positions(p, "delete_thread") = {}

\* C13 (steps): while init_agent_threads has no agent id, no step of the call
\* changes self.agent_id or self.thread_id.
C13_IdsKept ==
    \A p \in Procs :
        (/\ pc[p] = "gather" \/ pc'[p] = "gather"
         /\ results'[p].agent \in {Pending, Err})
            => UNCHANGED client

\* C13: a failed agent creation beside a successful thread creation makes
\* search() fail with the thread left on the service, the client's ids as
\* they were, and the thread untouched by a following delete_agent_threads().
C13_FailedAcquireLeavesThread == []C13_OrphanedThread /\ [][C13_IdsKept]_vars

\* C13 witness: after such a failed search(), delete_agent_threads() has run
\* to its end on a client that held ids, and the orphaned thread is there.
C13_Witness ==
    \E p \in Procs :
        /\ AgentFailedThreadCreated(p)
        /\ call[p] = "delete_agent_threads"
        /\ pc[p] = "done"
        /\ results[p].thread \in threads


\* The client holds no agent id and no thread id.
HoldsNothing == agent_id = None /\ thread_id = None

\* C14 (states): a delete_agent_threads() on a client that holds no ids has
\* sent no request, and when it has ended it has returned normally.
C14_NoRequest ==
    \A p \in Procs :
        (call[p] = "delete_agent_threads" /\ HoldsNothing) =>
            /\ log[p] = <<>>
            /\ pc[p] \in {"release", "done"}
            /\ pc[p] = "done" => outcome[p] = "returned"

\* C14 (steps): no step of such a call changes the client's ids or anything
\* on the service.
C14_NothingChanged ==
    \A p \in Procs :
        (call'[p] = "delete_agent_threads" /\ HoldsNothing /\ pc[p] # pc'[p])
            => UNCHANGED <<client, service>>

\* C14: delete_agent_threads() on a client without ids is a no-op: no DELETE,
\* no exception, client and service unchanged.
C14_ReleaseWithoutIdsIsNoOp == []C14_NoRequest /\ [][C14_NothingChanged]_vars

\* C14 witness: delete_agent_threads() has run to its end on a client that
\* holds no ids.
C14_Witness ==
    \E p \in Procs :
        /\ call[p] = "delete_agent_threads"
        /\ pc[p] = "done"
        /\ HoldsNothing


Sleeps(p) == Positions(p, "sleep")
PolledStatuses(p) == [i \in 1..Len(Ops(p, "status_run")) |-> Ops(p, "status_run")[i].status]

\* C15: no poll follows a poll that answered a terminal status; every delay
\* comes right after a poll that answered a non-terminal status and right
\* before the next poll, and every poll but the first comes right after a
\* delay; so a sequence of n polls that ends in a terminal status has n - 1
\* delays.  When search() has ended after [queued, in_progress, completed] it
\* has sent 3 polls and one GET of the messages.
C15_PollsAndDelays ==
    \A p \in Procs :
        /\ \A i \in Polls(p) :
              /\ log[p][i].status \in Terminal => \A j \in Polls(p) : j <= i
              /\ (i - 1) \in Sleeps(p) \/ \A j \in Polls(p) : i <= j
        /\ \A s \in Sleeps(p) :
              /\ (s - 1) \in Polls(p)
              /\ log[p][s - 1].status \notin Terminal
              /\ s < Len(log[p]) => (s + 1) \in Polls(p)
        /\ (\E i \in Polls(p) : log[p][i].status \in Terminal) =>
              Cardinality(Sleeps(p)) = Cardinality(Polls(p)) - 1
        /\ (SearchEnded(p) /\ PolledStatuses(p) = <<"queued", "in_progress", "completed">>) =>
              /\ Cardinality(Polls(p)) = 3
              /\ Cardinality(Sleeps(p)) = 2
              /\ Cardinality(Fetches(p)) = 1

\* C15 witness: scenario A, search() has returned after the polls answered
\* queued, in_progress, completed.
C15_Witness ==
    \E p \in Procs :
        /\ ret[p].outcome = "returned"
        /\ PolledStatuses(p) = <<"queued", "in_progress", "completed">>


Submissions(p) == Positions(p, "runs")
FirstPoll(p, i) == i \in Polls(p) /\ \A j \in Polls(p) : i <= j

\* C16 as stated: the status in the response to the run submission is the
\* poller's initial status; completed or failed there means no delay is ever
\* taken and no further status is waited for, any other status there means
\* the messages are not fetched before a delay has been taken.
C16_SubmissionStatusDecides ==
    \A p \in Procs : \A r \in Submissions(p) :
        /\ log[p][r].status \in {"completed", "failed"} => Sleeps(p) = {}
        /\ (log[p][r].status = "queued" /\ Fetches(p) # {}) => Sleeps(p) # {}

\* C16 amended: the initial status is the answer to the first status poll,
\* sent right after the run submission, whatever status the submission
\* response carried.  When the first poll answers completed or failed the run
\* is terminal from the start: no delay is taken and the next request is the
\* GET of the messages.  When it answers a status outside completed, failed
\* and incomplete, the next step is a delay.
C16_FirstPollDecides ==
    \A p \in Procs : \A i \in Polls(p) :
        FirstPoll(p, i) =>
            /\ (i - 1) \in Submissions(p)
            /\ log[p][i].status \in {"completed", "failed"} =>
                  /\ Sleeps(p) = {}
                  /\ pc[p] # "polled" => (i + 1) \in Fetches(p)
            /\ log[p][i].status \in Statuses \ Terminal =>
                  /\ pc[p] # "polled" => (i + 1) \in Sleeps(p)
                  /\ \A f \in Fetches(p) : \E s \in Sleeps(p) : s < f

\* C16 witness: the submission response carried completed, the first poll
\* answered queued and search() slept.
C16_Witness ==
    \E p \in Procs : \E r \in Submissions(p) :
        /\ log[p][r].status = "completed"
        /\ (r + 1) \in Polls(p)
        /\ log[p][r + 1].status = "queued"
        /\ (r + 2) \in Sleeps(p)


SearchActive == {"gather", "asked", "ran", "polled", "sleep", "fetched"}
PollsSent(p) == Len(Ops(p, "status_run"))
Capped(p) == pc[p] = "sleep" /\ PollsSent(p) = MaxPolls

\* search() has ended after at least one poll only if the last poll answered
\* completed, failed or incomplete.
C17_EndsOnlyOnTerminal ==
    \A p \in Procs :
        (call[p] \in SearchKinds /\ SearchEnded(p) /\ Polls(p) # {}) =>
            \E s \in Terminal : LastPolledStatus(p, s)

\* After a poll that answered any other status search() sleeps, and after
\* the sleep it polls again, however many polls it has sent.
C17_LoopsBack ==
    \A p \in Procs :
        /\ (pc[p] = "polled" /\ status_run_result[p].status \in Statuses \ Terminal) =>
              (pc'[p] \in {"polled", "sleep"} /\ ~SearchEnded(p)')
        /\ (pc[p] = "sleep" /\ pc'[p] # "sleep") =>
              (pc'[p] = "polled" /\ PollsSent(p)' = PollsSent(p) + 1)

\* C17: the poll loop ends if and only if a poll answers completed, failed or
\* incomplete.  search() ends after polling only on such an answer; any other
\* answer leads to a sleep and another poll, with no cap in the code (the one
\* cap is the bound MaxPolls on the polls explored); and once a poll has
\* answered completed, failed or incomplete search() eventually returns or
\* raises, so that a started search() always either ends or has sent MaxPolls
\* polls that all answered a non-terminal status and waits to poll again.
C17_PollLoopTermination ==
    /\ []C17_EndsOnlyOnTerminal
    /\ [][C17_LoopsBack]_vars
    /\ \A p \in Procs :
          /\ (\E s \in Terminal : PolledStatus(p, s)) ~> SearchEnded(p)
          /\ (pc[p] \in SearchActive) ~> (SearchEnded(p) \/ Capped(p))

\* C17 witness: search() went round its loop until the last poll the bound
\* allows, and ended when that poll answered a terminal status.
C17_Witness ==
    \E p \in Procs :
        /\ SearchEnded(p)
        /\ PollsSent(p) = MaxPolls
        /\ \E s \in Terminal : LastPolledStatus(p, s)


CreatedAgents(p) == {log[p][i].agent : i \in Positions(p, "create_agent")} \ {Err}
CreatedThreads(p) == {log[p][i].thread : i \in Positions(p, "create_thread")} \ {Err}
ReleasedBefore(p) ==
    \E i \in 1..Len(calls[p]) :
        calls[p][i].kind = "bing_search" /\ calls[p][i].outcome = "returned"

\* C18: for calls made one after the other on one client, a search() that
\* submits a run has sent exactly one POST /assistants and one POST /threads,
\* both answered with an id; the run submission carries these two ids and the
\* service holds both resources when it arrives (it answers with a run); and
\* no two runs the service ever accepted share an agent or a thread, so the
\* ids an earlier search() left in the client are not used again.
C18_FreshAgentAndThread ==
    \A p \in Procs :
        /\ Cardinality(Positions(p, "create_agent")) <= 1
        /\ Cardinality(Positions(p, "create_thread")) <= 1
        /\ \A r \in Submissions(p) :
              /\ Cardinality(Positions(p, "create_agent")) = 1
              /\ Cardinality(Positions(p, "create_thread")) = 1
              /\ \A c \in Positions(p, "create_agent") \cup Positions(p, "create_thread") : c < r
              /\ CreatedAgents(p) = {log[p][r].agent}
              /\ CreatedThreads(p) = {log[p][r].thread}
              /\ log[p][r].status # MissingKey
              /\ pc[p] # "asked" => runs_result[p] # Err
              /\ \E x \in runs : x.agent = log[p][r].agent /\ x.thread = log[p][r].thread
        /\ \A x, y \in runs :
              (x.agent = y.agent \/ x.thread = y.thread) => x = y

\* C18 witness: a bing_search() has returned, leaving the ids of its deleted
\* agent and thread in the client, and a later search() has submitted its run.
C18_Witness ==
    \E p \in Procs :
        /\ ReleasedBefore(p)
        /\ call[p] \in SearchKinds
        /\ Submissions(p) # {}
        /\ Cardinality(runs) = 2


AllReturned(p) ==
    /\ pc[p] = "done"
    /\ outcome[p] = "returned"
    /\ \A i \in 1..Len(calls[p]) : calls[p][i].outcome = "returned"

\* C19: for calls made one after the other on one client, once every call
\* made so far has returned, every agent and every thread the service still
\* holds is the one named by the client's agent_id / thread_id.
C19_NoOrphanedResource ==
    \A p \in Procs :
        AllReturned(p) =>
            /\ agents \subseteq {agent_id}
            /\ threads \subseteq {thread_id}

====
